---- MODULE Spec2Model ----
(***************************************************************************)
(* State tracking of goirc: the nickname and channel indices of a Conn,   *)
(* the Nick and Channel objects, and the ChanPrivs records shared by the   *)
(* two membership maps (Channel.Nicks and Nick.Channels).                  *)
(*                                                                         *)
(* Pointers are object identifiers: a Nick is a number in 1..MaxNicks, a   *)
(* Channel a number in 1..MaxChans, a ChanPrivs an element of PrivIds.  A  *)
(* Go map is a TLA+ function whose DOMAIN is the set of keys present.      *)
(*                                                                         *)
(* The String() methods of the three mode records are operators on a       *)
(* record [kind, flags, Key, Limit], flags being the boolean fields that   *)
(* are true; a Go string is the sequence of its characters.                *)
(***************************************************************************)
EXTENDS Integers, FiniteSets, Sequences, TLC

\* ---------------------------------------------------------------- bounds
\* Nick objects ever allocated (conn.Me included) and Channel objects ever
\* allocated.  An object that left the indices stays operable: a caller may
\* still hold the pointer.
MaxNicks == 2
MaxChans == 2

\* Nesting of Channel.DelNick, Nick.DelChannel, Channel.Delete and
\* Nick.Delete at which a call is cut off.
MaxDepth == 12

\* Nicknames and channel names the callers draw from.
NickNames == {"me", "bob"}
ChanNames == {"#a", "#b"}

\* The privilege flags of ChanPrivs and the ones the MODE handler is given.
PrivFlags == {"Owner", "Admin", "Op", "HalfOp", "Voice"}
GrantFlags == {"Op"}

\* The flags of NickMode and the ones the MODE handler is given.
NickModeFlags == {"Invisible", "Oper", "WallOps", "HiddenHost", "SSL"}
GrantNickModes == {"Invisible"}

\* ------------------------------------------------------------- constants
Nil == 0
Me == 1

NickIds == 1..MaxNicks
ChanIds == 1..MaxChans
\* A ChanPrivs pointer names the pair it was allocated for and a serial number
\* that tells it from a record of the same pair that is still referred to.
PrivIds == ChanIds \X NickIds \X {0, 1}

\* ----------------------------------------------------------------- state
VARIABLES
  nicks,     \* conn.nicks : nickname -> Nick
  chans,     \* conn.chans : channel name -> Channel
  nickObj,   \* the Nick objects:    id -> [Nick, Modes, Channels]
  chanObj,   \* the Channel objects: id -> [Name, Nicks]
  privObj,   \* the ChanPrivs objects some map refers to: id -> set of flags
  warned,    \* calls of conn.error made by the operation in progress / last
  deep,      \* deepest nesting of removal calls in the operation / last
  pc,        \* position inside ReNick, "idle" between operations
  last,      \* the operation in progress / last completed: its arguments and
             \* what it found when it was called
  mode,      \* a mode record: [kind, flags, Key, Limit]
  str        \* what String() returned for mode, << >> before the call

vars == <<nicks, chans, nickObj, chanObj, privObj, warned, deep, pc, last, mode, str>>

\* The program state as one value, for the operators below.
Cur ==
  [nicks |-> nicks, chans |-> chans, nickObj |-> nickObj,
   chanObj |-> chanObj, privObj |-> privObj, warned |-> warned,
   depth |-> 0, deep |-> deep]

Install(t) ==
  /\ nicks' = t.nicks
  /\ chans' = t.chans
  /\ nickObj' = t.nickObj
  /\ chanObj' = t.chanObj
  /\ privObj' = t.privObj
  /\ warned' = t.warned
  /\ deep' = t.deep
  /\ UNCHANGED <<mode, str>>

\* ------------------------------------------------------------- Go maps
EmptyMap == [x \in {} |-> Nil]
MapPut(m, k, v) == [x \in (DOMAIN m) \cup {k} |-> IF x = k THEN v ELSE m[x]]
MapDel(m, k) == [x \in (DOMAIN m) \ {k} |-> m[x]]
\* The values of a map (the elements of a slice).
Range(m) == {m[k] : k \in DOMAIN m}

\* --------------------------------------------------------- ChanPrivs heap
\* Every ChanPrivs pointer some membership map holds.
Referenced(s) ==
  UNION {{s.chanObj[c].Nicks[n] : n \in DOMAIN s.chanObj[c].Nicks} : c \in DOMAIN s.chanObj}
  \cup
  UNION {{s.nickObj[n].Channels[c] : c \in DOMAIN s.nickObj[n].Channels} : n \in DOMAIN s.nickObj}

\* new(ChanPrivs): a pointer different from every pointer in use.
NewPrivId(s, ch, n) == IF <<ch, n, 0>> \notin Referenced(s) THEN <<ch, n, 0>> ELSE <<ch, n, 1>>

\* Records no map refers to any more are collected.
Collect(s) == [s EXCEPT !.privObj = [p \in Referenced(s) |-> s.privObj[p]]]

\* -------------------------------------------------- Conn: create / look up
\* NewNick with the object the allocator returns.
\* Variant: the new Nick takes over the state of the Nick indexed under nick.
NewNickMerges(s, id, nick) ==
  LET n == IF nick \in DOMAIN s.nicks
           THEN s.nickObj[s.nicks[nick]]
           ELSE [Nick |-> nick, Modes |-> {}, Channels |-> EmptyMap]
  IN [s EXCEPT !.nickObj = MapPut(s.nickObj, id, n),
               !.nicks = MapPut(s.nicks, n.Nick, id)]

NewNick(s, id, nick) ==
  LET n == [Nick |-> nick, Modes |-> {}, Channels |-> EmptyMap] IN
  [s EXCEPT !.nickObj = MapPut(s.nickObj, id, n),
            !.nicks = MapPut(s.nicks, n.Nick, id)]

GetNick(s, n) == IF n \in DOMAIN s.nicks THEN s.nicks[n] ELSE Nil

NewChannel(s, id, c) ==
  LET ch == [Name |-> c, Nicks |-> EmptyMap] IN
  [s EXCEPT !.chanObj = MapPut(s.chanObj, id, ch),
            !.chans = MapPut(s.chans, ch.Name, id)]

GetChannel(s, c) == IF c \in DOMAIN s.chans THEN s.chans[c] ELSE Nil

\* ------------------------------------------------------------ association
Warn(s) == [s EXCEPT !.warned = @ + 1]

\* Variant: no test for a pre-existing association.
ChannelAddNickOverwrites(s, ch, n) ==
  LET p == NewPrivId(s, ch, n)
      s1 == [s EXCEPT !.privObj = MapPut(s.privObj, p, {}),
                      !.chanObj[ch].Nicks = MapPut(@, n, p)]
  IN [s1 EXCEPT !.nickObj[n].Channels = MapPut(@, ch, s1.chanObj[ch].Nicks[n])]

ChannelAddNick(s, ch, n) ==
  IF n \notin DOMAIN s.chanObj[ch].Nicks
  THEN LET p == NewPrivId(s, ch, n)
           s1 == [s EXCEPT !.privObj = MapPut(s.privObj, p, {}),
                           !.chanObj[ch].Nicks = MapPut(@, n, p)]
       IN [s1 EXCEPT !.nickObj[n].Channels = MapPut(@, ch, s1.chanObj[ch].Nicks[n])]
  ELSE Warn(s)

\* Variant: a record ch.Nicks still holds for n is taken instead of a new one.
NickAddChannelReuses(s, n, ch) ==
  IF ch \notin DOMAIN s.nickObj[n].Channels
  THEN IF n \in DOMAIN s.chanObj[ch].Nicks
       THEN [s EXCEPT !.nickObj[n].Channels = MapPut(@, ch, s.chanObj[ch].Nicks[n])]
       ELSE LET p == NewPrivId(s, ch, n)
                s1 == [s EXCEPT !.privObj = MapPut(s.privObj, p, {}),
                                !.chanObj[ch].Nicks = MapPut(@, n, p)]
            IN [s1 EXCEPT !.nickObj[n].Channels = MapPut(@, ch, s1.chanObj[ch].Nicks[n])]
  ELSE Warn(s)

\* Variant: the duplicate association is not reported.
NickAddChannelSilent(s, n, ch) ==
  IF ch \notin DOMAIN s.nickObj[n].Channels
  THEN LET p == NewPrivId(s, ch, n)
           s1 == [s EXCEPT !.privObj = MapPut(s.privObj, p, {}),
                           !.chanObj[ch].Nicks = MapPut(@, n, p)]
       IN [s1 EXCEPT !.nickObj[n].Channels = MapPut(@, ch, s1.chanObj[ch].Nicks[n])]
  ELSE s

NickAddChannel(s, n, ch) ==
  IF ch \notin DOMAIN s.nickObj[n].Channels
  THEN LET p == NewPrivId(s, ch, n)
           s1 == [s EXCEPT !.privObj = MapPut(s.privObj, p, {}),
                           !.chanObj[ch].Nicks = MapPut(@, n, p)]
       IN [s1 EXCEPT !.nickObj[n].Channels = MapPut(@, ch, s1.chanObj[ch].Nicks[n])]
  ELSE Warn(s)

\* The four removal operations call each other.  A range over a map visits
\* the keys in an unspecified order and skips a key deleted before its turn,
\* so each operation yields the SET of states it may end in.
RECURSIVE ChannelDelNick(_, _, _)
\* A removal call takes a frame on the stack and gives it back when it
\* returns; deep is the highest the stack got.
Enter(s) == [s EXCEPT !.depth = @ + 1,
                      !.deep = IF s.depth + 1 > @ THEN s.depth + 1 ELSE @]
Return(S) == {[t EXCEPT !.depth = @ - 1] : t \in S}

RECURSIVE ChannelDeleteLoop(_, _, _)
RECURSIVE ChannelDelete(_, _)
RECURSIVE NickDelChannel(_, _, _)
RECURSIVE NickDeleteLoop(_, _, _)
RECURSIVE NickDelete(_, _)

\* Variant: the Nick side of the association is not told.
ChannelDelNickOneSided(s, ch, n) ==
  IF n \in DOMAIN s.chanObj[ch].Nicks
  THEN IF n = Me
       THEN ChannelDelete(s, ch)
       ELSE {[s EXCEPT !.chanObj[ch].Nicks = MapDel(@, n)]}
  ELSE {s}

\* Variant: every leave tears the channel down, not only conn.Me's.
ChannelDelNickAlwaysDeletes(s, ch, n) ==
  IF n \in DOMAIN s.chanObj[ch].Nicks
  THEN ChannelDelete(s, ch)
  ELSE {s}

ChannelDelNick(s, ch, n) ==
  IF s.depth = MaxDepth THEN {s} ELSE
  LET e == Enter(s) IN
  Return(IF n \in DOMAIN e.chanObj[ch].Nicks
         THEN IF n = Me
              THEN ChannelDelete(e, ch)
              ELSE NickDelChannel([e EXCEPT !.chanObj[ch].Nicks = MapDel(@, n)], n, ch)
         ELSE {e})

\* for n, _ := range ch.Nicks { n.DelChannel(ch) }, todo = keys not visited yet
ChannelDeleteLoop(s, ch, todo) ==
  LET left == todo \cap DOMAIN s.chanObj[ch].Nicks IN
  IF left = {}
  THEN {s}
  ELSE UNION {UNION {ChannelDeleteLoop(t, ch, left \ {n}) : t \in NickDelChannel(s, n, ch)}
              : n \in left}

\* Variant: the channel is left in conn.chans.
ChannelDeleteKeepsIndex(s, ch) ==
  ChannelDeleteLoop(s, ch, DOMAIN s.chanObj[ch].Nicks)

ChannelDelete(s, ch) ==
  IF s.depth = MaxDepth THEN {s} ELSE
  LET e == Enter(s) IN
  Return({[t EXCEPT !.chans = MapDel(@, t.chanObj[ch].Name)]
          : t \in ChannelDeleteLoop(e, ch, DOMAIN e.chanObj[ch].Nicks)})

\* Variant: a nick that is on no channel any more is not deleted.
NickDelChannelKeepsNick(s, n, ch) ==
  IF ch \in DOMAIN s.nickObj[n].Channels
  THEN ChannelDelNick([s EXCEPT !.nickObj[n].Channels = MapDel(@, ch)], ch, n)
  ELSE {s}

\* Variant: the entry is still in n.Channels when ch.DelNick(n) is called.
NickDelChannelCallsFirst(s, n, ch) ==
  IF s.depth = MaxDepth THEN {s} ELSE
  LET e == Enter(s) IN
  Return(IF ch \in DOMAIN e.nickObj[n].Channels
         THEN UNION {LET u == [t EXCEPT !.nickObj[n].Channels = MapDel(@, ch)] IN
                     IF DOMAIN u.nickObj[n].Channels = {} THEN NickDelete(u, n) ELSE {u}
                     : t \in ChannelDelNick(e, ch, n)}
         ELSE {e})

NickDelChannel(s, n, ch) ==
  IF s.depth = MaxDepth THEN {s} ELSE
  LET e == Enter(s) IN
  Return(IF ch \in DOMAIN e.nickObj[n].Channels
         THEN UNION {IF DOMAIN t.nickObj[n].Channels = {} THEN NickDelete(t, n) ELSE {t}
                     : t \in ChannelDelNick([e EXCEPT !.nickObj[n].Channels = MapDel(@, ch)], ch, n)}
         ELSE {e})

\* for ch, _ := range n.Channels { ch.DelNick(n) }
NickDeleteLoop(s, n, todo) ==
  LET left == todo \cap DOMAIN s.nickObj[n].Channels IN
  IF left = {}
  THEN {s}
  ELSE UNION {UNION {NickDeleteLoop(t, n, left \ {ch}) : t \in ChannelDelNick(s, ch, n)}
              : ch \in left}

\* Variant: conn.Me is deleted like any other nick.
NickDeleteAlsoMe(s, n) ==
  {[t EXCEPT !.nicks = MapDel(@, t.nickObj[n].Nick)]
   : t \in NickDeleteLoop(s, n, DOMAIN s.nickObj[n].Channels)}

NickDelete(s, n) ==
  IF s.depth = MaxDepth THEN {s} ELSE
  LET e == Enter(s) IN
  Return(IF n # Me
         THEN {[t EXCEPT !.nicks = MapDel(@, t.nickObj[n].Nick)]
               : t \in NickDeleteLoop(e, n, DOMAIN e.nickObj[n].Channels)}
         ELSE {e})

\* ReNick, statement by statement, and as a whole.
\* Variants: the old key is not removed; the new key is not entered.
ReNickUnindexSkipped(s, n) == s
ReNickIndexSkipped(s, n) == s

ReNickUnindex(s, n) == [s EXCEPT !.nicks = MapDel(@, s.nickObj[n].Nick)]
ReNickAssign(s, n, neu) == [s EXCEPT !.nickObj[n].Nick = neu]
ReNickIndex(s, n) == [s EXCEPT !.nicks = MapPut(@, s.nickObj[n].Nick, n)]
ReNick(s, n, neu) == ReNickIndex(ReNickAssign(ReNickUnindex(s, n), n, neu), n)

\* The MODE handler sets a field of the record a membership refers to.
SetPriv(s, p, f) == [s EXCEPT !.privObj[p] = @ \cup {f}]

\* The MODE handler sets a field of n.Modes.
SetNickMode(s, n, f) == [s EXCEPT !.nickObj[n].Modes = @ \cup {f}]

\* ---------------------------------------------------------------- actions
\* What a call found: the members of the channel, whether each side of the
\* pair held the other, and the name the nick had.
Members(s, ch) == IF ch \in DOMAIN s.chanObj THEN DOMAIN s.chanObj[ch].Nicks ELSE {}
Memberships(s, n) == IF n \in DOMAIN s.nickObj THEN DOMAIN s.nickObj[n].Channels ELSE {}

Call(op, n, c, name) ==
  [op |-> op, n |-> n, c |-> c, name |-> name,
   inNicks |-> n \in Members(Cur, c),
   inChannels |-> c \in Memberships(Cur, n),
   mem |-> IF op \in {"DelNick", "DelChannel", "Channel.Delete"} THEN Members(Cur, c) ELSE {},
   chs |-> IF op = "Nick.Delete" THEN Memberships(Cur, n) ELSE {},
   old |-> IF op = "ReNick" THEN nickObj[n].Nick ELSE "",
   indexed |-> \/ op = "ReNick" /\ GetNick(Cur, nickObj[n].Nick) = n
               \/ op = "NewNick" /\ name \in DOMAIN nicks,
   privs |-> IF op \in {"AddNick", "AddChannel"} /\ n \in Members(Cur, c)
             THEN privObj[chanObj[c].Nicks[n]]
             ELSE {}]

\* conn.Me = conn.NewNick(...) when the connection is built.
ConnInit ==
  LET s0 == [nicks |-> EmptyMap, chans |-> EmptyMap, nickObj |-> EmptyMap,
             chanObj |-> EmptyMap, privObj |-> EmptyMap, warned |-> 0,
             depth |-> 0, deep |-> 0]
      s1 == NewNick(s0, Me, "me")
  IN /\ nicks = s1.nicks
     /\ chans = s1.chans
     /\ nickObj = s1.nickObj
     /\ chanObj = s1.chanObj
     /\ privObj = s1.privObj
     /\ warned = 0
     /\ deep = 0
     /\ pc = "idle"
     /\ last = [op |-> "New", n |-> Me, c |-> Nil, name |-> "me",
                inNicks |-> FALSE, inChannels |-> FALSE, mem |-> {}, chs |-> {},
                old |-> "",
                indexed |-> FALSE, privs |-> {}]

\* new(ChanMode), new(NickMode), new(ChanPrivs): every field is zero.
ZeroMode(kind) == [kind |-> kind, flags |-> {}, Key |-> << >>, Limit |-> 0]

Init ==
  /\ ConnInit
  /\ mode = ZeroMode("NickMode")
  /\ str = << >>

\* An operation is called on the state Cur with a fresh warning count.
Entry == [Cur EXCEPT !.warned = 0, !.deep = 0]

Done(op, n, c, name, t) ==
  /\ Install(Collect(t))
  /\ pc' = "idle"
  /\ last' = Call(op, n, c, name)

CallNewNick ==
  /\ pc = "idle"
  /\ Cardinality(DOMAIN nickObj) < MaxNicks
  /\ \E k \in NickNames :
       LET id == Cardinality(DOMAIN nickObj) + 1 IN
       Done("NewNick", id, Nil, k, NewNick(Entry, id, k))

CallNewChannel ==
  /\ pc = "idle"
  /\ Cardinality(DOMAIN chanObj) < MaxChans
  /\ \E k \in ChanNames :
       LET id == Cardinality(DOMAIN chanObj) + 1 IN
       Done("NewChannel", Nil, id, k, NewChannel(Entry, id, k))

CallAddNick ==
  /\ pc = "idle"
  /\ \E ch \in DOMAIN chanObj, n \in DOMAIN nickObj :
       Done("AddNick", n, ch, "", ChannelAddNick(Entry, ch, n))

CallAddChannel ==
  /\ pc = "idle"
  /\ \E ch \in DOMAIN chanObj, n \in DOMAIN nickObj :
       Done("AddChannel", n, ch, "", NickAddChannel(Entry, n, ch))

CallDelNick ==
  /\ pc = "idle"
  /\ \E ch \in DOMAIN chanObj, n \in DOMAIN nickObj :
       \E t \in ChannelDelNick(Entry, ch, n) : Done("DelNick", n, ch, "", t)

CallDelChannel ==
  /\ pc = "idle"
  /\ \E ch \in DOMAIN chanObj, n \in DOMAIN nickObj :
       \E t \in NickDelChannel(Entry, n, ch) : Done("DelChannel", n, ch, "", t)

CallChannelDelete ==
  /\ pc = "idle"
  /\ \E ch \in DOMAIN chanObj :
       \E t \in ChannelDelete(Entry, ch) : Done("Channel.Delete", Nil, ch, "", t)

CallNickDelete ==
  /\ pc = "idle"
  /\ \E n \in DOMAIN nickObj :
       \E t \in NickDelete(Entry, n) : Done("Nick.Delete", n, Nil, "", t)

CallReNick ==
  /\ pc = "idle"
  /\ \E n \in DOMAIN nickObj, neu \in NickNames :
       Done("ReNick", n, Nil, neu, ReNick(Entry, n, neu))

\* ReNick one statement at a time: n.conn.nicks[n.Nick] = nil, false
ReNickStep1 ==
  /\ pc = "idle"
  /\ \E n \in DOMAIN nickObj, neu \in NickNames :
       /\ Install(ReNickUnindex(Entry, n))
       /\ pc' = "assign"
       /\ last' = Call("ReNick", n, Nil, neu)

\* n.Nick = neu
ReNickStep2 ==
  /\ pc = "assign"
  /\ Install(ReNickAssign(Cur, last.n, last.name))
  /\ pc' = "index"
  /\ UNCHANGED last

\* n.conn.nicks[n.Nick] = n
ReNickStep3 ==
  /\ pc = "index"
  /\ Install(ReNickIndex(Cur, last.n))
  /\ pc' = "idle"
  /\ UNCHANGED last

CallSetPriv ==
  /\ pc = "idle"
  /\ \E p \in DOMAIN privObj, f \in GrantFlags :
       /\ f \notin privObj[p]
       /\ Done("SetPriv", Nil, Nil, f, SetPriv(Entry, p, f))

\* The calls on the graph, each one whole.
Next ==
  \/ CallNewNick
  \/ CallNewChannel
  \/ CallAddNick
  \/ CallAddChannel
  \/ CallDelNick
  \/ CallDelChannel
  \/ CallChannelDelete
  \/ CallNickDelete
  \/ CallReNick

Spec == Init /\ [][Next]_vars

\* The same calls with ReNick observed between its statements.
NextSteps ==
  \/ CallNewNick
  \/ CallNewChannel
  \/ CallAddNick
  \/ CallAddChannel
  \/ CallDelNick
  \/ CallDelChannel
  \/ CallChannelDelete
  \/ CallNickDelete
  \/ ReNickStep1
  \/ ReNickStep2
  \/ ReNickStep3

SpecSteps == Init /\ [][NextSteps]_vars

\* Creates, joins and leaves with the MODE handler granting privileges in
\* between.
NextPrivs ==
  \/ CallNewNick
  \/ CallNewChannel
  \/ CallAddNick
  \/ CallAddChannel
  \/ CallDelNick
  \/ CallDelChannel
  \/ CallSetPriv

SpecPrivs == Init /\ [][NextPrivs]_vars

CallSetNickMode ==
  /\ pc = "idle"
  /\ \E n \in DOMAIN nickObj, f \in GrantNickModes :
       /\ f \notin nickObj[n].Modes
       /\ Done("SetNickMode", n, Nil, f, SetNickMode(Entry, n, f))

\* Creates, joins, leaves and renames with the MODE handler setting nick
\* modes in between.
NextNickModes ==
  \/ CallNewNick
  \/ CallNewChannel
  \/ CallAddNick
  \/ CallDelChannel
  \/ CallReNick
  \/ CallSetNickMode

SpecNickModes == Init /\ [][NextNickModes]_vars

\* ------------------------------------------------------------ mode records
\* The fields of the three structs, in the order they are declared.
ChanModeFields ==
  <<"Private", "Secret", "ProtectedTopic", "NoExternalMsg", "Moderated",
    "InviteOnly", "OperOnly", "SSLOnly", "Key", "Limit">>
NickModeFields == <<"Invisible", "Oper", "WallOps", "HiddenHost", "SSL">>
ChanPrivsFields == <<"Owner", "Admin", "Op", "HalfOp", "Voice">>

ChanModeToString ==
  [Private |-> "p", Secret |-> "s", ProtectedTopic |-> "t",
   NoExternalMsg |-> "n", Moderated |-> "m", InviteOnly |-> "i",
   OperOnly |-> "O", SSLOnly |-> "z", Key |-> "k", Limit |-> "l"]

\* Variant: SSL has the character of Invisible.
NickModeToStringClash ==
  [Invisible |-> "i", Oper |-> "o", WallOps |-> "w", HiddenHost |-> "x", SSL |-> "i"]

NickModeToString ==
  [Invisible |-> "i", Oper |-> "o", WallOps |-> "w", HiddenHost |-> "x", SSL |-> "z"]

ChanPrivToString ==
  [Owner |-> "q", Admin |-> "a", Op |-> "o", HalfOp |-> "h", Voice |-> "v"]

\* init(): for k, v := range table { reverse[v] = k }.  Where two keys have
\* the same value the one ranged over last stays; CHOOSE takes one of them.
Reverse(table) ==
  [v \in {table[k] : k \in DOMAIN table} |-> CHOOSE k \in DOMAIN table : table[k] = v]

StringToChanMode == Reverse(ChanModeToString)
StringToNickMode == Reverse(NickModeToString)
StringToChanPriv == Reverse(ChanPrivToString)

\* fmt.Sprintf("%d", n)
Digits == <<"0", "1", "2", "3", "4", "5", "6", "7", "8", "9">>
RECURSIVE Decimal(_)
Decimal(n) ==
  IF n < 0 THEN <<"-">> \o Decimal(0 - n)
  ELSE IF n < 10 THEN <<Digits[n + 1]>>
  ELSE Decimal(n \div 10) \o <<Digits[(n % 10) + 1]>>

\* The switch on the type of a field: a bool that is true, a string that is
\* not "", an int that is not 0.
IsSet(m, f) ==
  IF f = "Key" THEN m.Key # << >>
  ELSE IF f = "Limit" THEN m.Limit # 0
  ELSE f \in m.flags

\* for i := 0; i < v.NumField(); i++ { ... str += table[t.Field(i).Name] }
RECURSIVE AppendModes(_, _, _, _)
AppendModes(m, fields, table, s) ==
  IF fields = << >>
  THEN s
  ELSE AppendModes(m, Tail(fields), table,
                   IF IsSet(m, Head(fields)) THEN Append(s, table[Head(fields)]) ELSE s)

\* Variant: the limit is a[0] and the key a[1].
ChanModeArgsLimitFirst(m) ==
  <<IF m.Limit # 0 THEN Decimal(m.Limit) ELSE << >>,
    IF m.Key # << >> THEN m.Key ELSE << >> >>

\* a := make([]string, 2); a[0] = the key, a[1] = the limit in decimal
ChanModeArgs(m) ==
  <<IF m.Key # << >> THEN m.Key ELSE << >>,
    IF m.Limit # 0 THEN Decimal(m.Limit) ELSE << >> >>

\* for _, s := range a { if s != "" { str += " " + s } }
RECURSIVE AppendArgs(_, _)
AppendArgs(s, a) ==
  IF a = << >>
  THEN s
  ELSE AppendArgs(IF Head(a) # << >> THEN s \o <<" ">> \o Head(a) ELSE s, Tail(a))

NoModesSet == <<"N", "o", " ", "m", "o", "d", "e", "s", " ", "s", "e", "t">>

\* Variant: a string of "+" alone is returned as it is.
SentinelSkipped(s) == s

\* if str == "+" { str = "No modes set" }
Sentinel(s) == IF s = <<"+">> THEN NoModesSet ELSE s

ChanModeString(cm) ==
  Sentinel(AppendArgs(AppendModes(cm, ChanModeFields, ChanModeToString, <<"+">>),
                      ChanModeArgs(cm)))
NickModeString(nm) == Sentinel(AppendModes(nm, NickModeFields, NickModeToString, <<"+">>))
ChanPrivsString(p) == Sentinel(AppendModes(p, ChanPrivsFields, ChanPrivToString, <<"+">>))

\* The MODE handler: every character of s the reverse table knows sets the
\* field the table names.
ReverseTable(kind) ==
  IF kind = "ChanMode" THEN StringToChanMode
  ELSE IF kind = "NickMode" THEN StringToNickMode
  ELSE StringToChanPriv
Decode(kind, s) ==
  {ReverseTable(kind)[s[i]] : i \in {j \in 1..Len(s) : s[j] \in DOMAIN ReverseTable(kind)}}

\* Keys and limits the mode records are built with.
Keys == {<< >>, <<"s", "e", "c", "r", "e", "t">>, <<"k">>}
Limits == {0, 7, 10, 0 - 3}

ModeRecords ==
  [kind : {"ChanMode"}, flags : SUBSET (Range(ChanModeFields) \ {"Key", "Limit"}),
   Key : Keys, Limit : Limits]
  \cup [kind : {"NickMode"}, flags : SUBSET Range(NickModeFields), Key : {<< >>}, Limit : {0}]
  \cup [kind : {"ChanPrivs"}, flags : SUBSET Range(ChanPrivsFields), Key : {<< >>}, Limit : {0}]

InitModes ==
  /\ ConnInit
  /\ mode \in ModeRecords
  /\ str = << >>

CallChanModeString ==
  /\ mode.kind = "ChanMode"
  /\ str = << >>
  /\ str' = ChanModeString(mode)
  /\ UNCHANGED <<nicks, chans, nickObj, chanObj, privObj, warned, deep, pc, last, mode>>

CallNickModeString ==
  /\ mode.kind = "NickMode"
  /\ str = << >>
  /\ str' = NickModeString(mode)
  /\ UNCHANGED <<nicks, chans, nickObj, chanObj, privObj, warned, deep, pc, last, mode>>

CallChanPrivsString ==
  /\ mode.kind = "ChanPrivs"
  /\ str = << >>
  /\ str' = ChanPrivsString(mode)
  /\ UNCHANGED <<nicks, chans, nickObj, chanObj, privObj, warned, deep, pc, last, mode>>

NextModes ==
  \/ CallChanModeString
  \/ CallNickModeString
  \/ CallChanPrivsString

SpecModes == InitModes /\ [][NextModes]_vars

\* ---------------------------------------------------------------- claims
\* The last call was a leave of nick n from channel c, from either side.
Left(l) == l.op \in {"DelNick", "DelChannel"}
Joined(l) == l.op \in {"AddNick", "AddChannel"}
\* ... and the pair was a membership, held by both maps, when it was called.
WasMember(l) == l.inNicks /\ l.inChannels

\* C1: after every operation, for every Nick n and Channel c ever created, n
\* is a key of c.Nicks iff c is a key of n.Channels, and then both entries
\* are the same ChanPrivs.
C1_Mirroring ==
  \A n \in DOMAIN nickObj, c \in DOMAIN chanObj :
    /\ n \in DOMAIN chanObj[c].Nicks <=> c \in DOMAIN nickObj[n].Channels
    /\ n \in DOMAIN chanObj[c].Nicks /\ c \in DOMAIN nickObj[n].Channels
         => chanObj[c].Nicks[n] = nickObj[n].Channels[c]

\* C2: when conn.Me, a member of channel c, leaves c from either side, c is
\* no longer in the channel index, no former member has c in its Channels,
\* and every other former member that was on no other channel is no longer
\* in the nickname index.
C2_SelfLeaveCascade ==
  [][(Left(last') /\ last'.n = Me /\ WasMember(last')) =>
       LET c == last'.c IN
       /\ c \notin Range(chans')
       /\ chanObj[c].Name \notin DOMAIN chans'
       /\ \A a \in last'.mem \ {Me} :
            /\ c \notin DOMAIN nickObj'[a].Channels
            /\ DOMAIN nickObj[a].Channels \subseteq {c} => a \notin Range(nicks')]_vars

\* conn.Me has just left a channel it shared with a nick that was indexed and
\* on no other channel: channel and nick are gone from the indices.
C2_Witness ==
  /\ Left(last) /\ last.n = Me /\ WasMember(last)
  /\ last.c \notin Range(chans)
  /\ \E a \in last.mem \ {Me} : a \notin Range(nicks) /\ Memberships(Cur, a) = {}

\* C3: the nickname index resolves the current nickname of conn.Me to conn.Me
\* after any sequence of operations.
C3_MeStaysIndexed == GetNick(Cur, nickObj[Me].Nick) = Me

\* C4 as stated: a Nick is a value of the nickname index iff it is conn.Me or
\* its Channels map is not empty.
C4_NickIndexIff ==
  \A n \in DOMAIN nickObj :
    n \in Range(nicks) <=> (n = Me \/ Memberships(Cur, n) # {})

\* C4 amended: a Nick other than conn.Me whose Channels map an operation
\* emptied is not a value of the nickname index after it; the Nick NewNick
\* has just created is indexed under its name with an empty Channels map.
C4_EmptiedNickUnindexed ==
  [][/\ \A n \in (DOMAIN nickObj) \ {Me} :
          (DOMAIN nickObj[n].Channels # {} /\ DOMAIN nickObj'[n].Channels = {})
            => n \notin Range(nicks')
     /\ last'.op = "NewNick" =>
          /\ last'.name \in DOMAIN nicks' /\ nicks'[last'.name] = last'.n
          /\ DOMAIN nickObj'[last'.n].Channels = {}]_vars

\* A nick other than conn.Me has just left its only channel and is unindexed.
C4_Witness ==
  /\ Left(last) /\ last.n # Me /\ WasMember(last)
  /\ Memberships(Cur, last.n) = {}
  /\ last.n \notin Range(nicks)
  /\ last.op = "DelChannel"

\* C5 as stated: a Channel is a value of the channel index iff its Nicks map
\* is not empty.
C5_ChanIndexIff ==
  \A c \in DOMAIN chanObj :
    c \in Range(chans) <=> Members(Cur, c) # {}

\* C5 amended: NewChannel indexes the new Channel with an empty Nicks map; a
\* leave of a nick other than conn.Me leaves the channel index as it is, also
\* when it takes the last member; after conn.Me left a channel it was on, or
\* after Channel.Delete, the channel is no value of the channel index.
C5_ChanIndexRule ==
  [][/\ last'.op = "NewChannel" =>
          /\ last'.name \in DOMAIN chans' /\ chans'[last'.name] = last'.c
          /\ DOMAIN chanObj'[last'.c].Nicks = {}
     /\ (Left(last') /\ last'.n # Me) => chans' = chans
     /\ ((Left(last') /\ last'.n = Me /\ WasMember(last')) \/ last'.op = "Channel.Delete")
          => last'.c \notin Range(chans')]_vars

\* The last member, not conn.Me, has just left an indexed channel: the
\* channel is still indexed and has no member.
C5_Witness ==
  /\ Left(last) /\ last.n # Me /\ WasMember(last)
  /\ Members(Cur, last.c) = {}
  /\ last.c \in Range(chans)

\* C6: in every state, the states between the statements of ReNick included,
\* every entry k -> n of the nickname index has n.Nick = k.
C6_IndexKey == \A k \in DOMAIN nicks : nickObj[nicks[k]].Nick = k

\* ReNick stands between n.Nick = neu and the re-indexing, the nick was
\* indexed under another name, and another Nick is indexed under neu.
C6_Witness ==
  /\ pc = "index"
  /\ last.indexed /\ last.old # last.name
  /\ nickObj[last.n].Nick = last.name
  /\ last.name \in DOMAIN nicks /\ nicks[last.name] # last.n

\* C7: after n.ReNick(X) on an indexed nick n with X not its name, GetNick(X)
\* is n, the old name resolves to nothing, and every membership map and
\* every ChanPrivs is as before.
C7_RenamePreservesIdentity ==
  [][(last'.op = "ReNick" /\ last'.indexed /\ last'.name # last'.old) =>
       /\ last'.name \in DOMAIN nicks' /\ nicks'[last'.name] = last'.n
       /\ last'.old \notin DOMAIN nicks'
       /\ chanObj' = chanObj
       /\ DOMAIN nickObj' = DOMAIN nickObj
       /\ \A m \in DOMAIN nickObj : nickObj'[m].Channels = nickObj[m].Channels
       /\ privObj' = privObj]_vars

\* An indexed nick with a membership has just been renamed to a new name.
C7_Witness ==
  /\ last.op = "ReNick" /\ last.indexed /\ last.name # last.old
  /\ GetNick(Cur, last.name) = last.n
  /\ GetNick(Cur, last.old) = Nil
  /\ Memberships(Cur, last.n) # {}

\* C8: when a nick n other than conn.Me leaves a channel c it is on, exactly
\* the pair (n, c) leaves both maps, n leaves the nickname index iff it is
\* then on no channel, and c stays in the channel index.
C8_NonLocalLeave ==
  [][(Left(last') /\ last'.n # Me /\ WasMember(last')) =>
       LET n == last'.n
           c == last'.c
       IN /\ chanObj' = [chanObj EXCEPT ![c].Nicks = MapDel(@, n)]
          /\ nickObj' = [nickObj EXCEPT ![n].Channels = MapDel(@, c)]
          /\ \A p \in DOMAIN privObj' : p \in DOMAIN privObj /\ privObj'[p] = privObj[p]
          /\ DOMAIN nickObj'[n].Channels = {} => n \notin Range(nicks')
          /\ DOMAIN nickObj'[n].Channels # {} => nicks' = nicks
          /\ chans' = chans]_vars

\* A nick other than conn.Me has just left one of two channels: it is still
\* indexed and still on the other one.
C8_Witness ==
  /\ Left(last) /\ last.n # Me /\ WasMember(last)
  /\ Memberships(Cur, last.n) # {}
  /\ last.n \in Range(nicks)
  /\ last.c \in Range(chans)

\* C9: from every reachable state, for every Nick n and Channel c,
\* c.AddNick(n) and n.AddChannel(c) end in the same state (warnings
\* included), and so do c.DelNick(n) and n.DelChannel(c).
C9_DirectionIndependent ==
  \A n \in DOMAIN nickObj, c \in DOMAIN chanObj :
    /\ Collect(ChannelAddNick(Entry, c, n)) = Collect(NickAddChannel(Entry, n, c))
    /\ {[Collect(t) EXCEPT !.deep = 0] : t \in ChannelDelNick(Entry, c, n)}
         = {[Collect(t) EXCEPT !.deep = 0] : t \in NickDelChannel(Entry, n, c)}

\* C10: a join of a pair that is a membership already leaves the ChanPrivs
\* of the pair, its flags, both indices and every other membership as they
\* are, and reports a warning instead of failing.
C10_DuplicateJoinNoOp ==
  [][(Joined(last') /\ WasMember(last')) =>
       /\ nicks' = nicks
       /\ chans' = chans
       /\ nickObj' = nickObj
       /\ chanObj' = chanObj
       /\ privObj' = privObj
       /\ warned' > 0]_vars

\* A pair whose ChanPrivs has a flag set has just been joined again: both
\* maps still hold the one record and the flag.
C10_Witness ==
  /\ Joined(last) /\ WasMember(last)
  /\ chanObj[last.c].Nicks[last.n] = nickObj[last.n].Channels[last.c]
  /\ privObj[chanObj[last.c].Nicks[last.n]] # {}

\* The indices, the maps and the ChanPrivs are the same before and after.
GraphUnchanged ==
  /\ nicks' = nicks
  /\ chans' = chans
  /\ nickObj' = nickObj
  /\ chanObj' = chanObj
  /\ privObj' = privObj

\* C11: a leave of a pair that is not a membership, from either side,
\* changes no index, no membership map and no ChanPrivs.
C11_RedundantRemovalNoOp ==
  [][(Left(last') /\ ~WasMember(last')) => GraphUnchanged]_vars

\* C12 as stated: a join of a pair that is a membership and a leave of a pair
\* that is none each send exactly one warning.
C12_OneWarningEach ==
  [][((Joined(last') /\ WasMember(last')) \/ (Left(last') /\ ~WasMember(last')))
       => warned' = 1]_vars

\* C12 amended: a join of a pair that is a membership sends exactly one
\* warning from either side; a leave of a pair that is none sends no warning.
C12_WarningCount ==
  [][/\ (Joined(last') /\ WasMember(last')) => warned' = 1
     /\ (Left(last') /\ ~WasMember(last')) => warned' = 0]_vars

\* A nick has just been removed from a channel it was not on, from the Nick
\* side, and nothing was reported.
C12_Witness ==
  /\ last.op = "DelChannel"
  /\ ~last.inNicks /\ ~last.inChannels
  /\ warned = 0

\* C14: after n.Delete() on a nick other than conn.Me, n is a key of no
\* Channel's Nicks, n.Channels is empty and n is no value of the nickname
\* index; conn.Me.Delete() changes nothing.
C14_NickTeardown ==
  [][last'.op = "Nick.Delete" =>
       LET n == last'.n IN
       IF n # Me
       THEN /\ \A c \in DOMAIN chanObj' : n \notin DOMAIN chanObj'[c].Nicks
            /\ DOMAIN nickObj'[n].Channels = {}
            /\ n \notin Range(nicks')
       ELSE GraphUnchanged]_vars

\* A nick other than conn.Me that was on two channels has just been deleted.
C14_Witness ==
  /\ last.op = "Nick.Delete" /\ last.n # Me
  /\ Cardinality(last.chs) = 2
  /\ Memberships(Cur, last.n) = {}
  /\ \A c \in DOMAIN chanObj : last.n \notin Members(Cur, c)

\* C19: when conn.Me leaves a channel c it is on, or c.Delete() is called,
\* every membership in another channel keeps its ChanPrivs, every other
\* indexed channel stays indexed, and every indexed nick that is still on
\* some channel stays indexed under its name.
C19_CascadeFrame ==
  [][((Left(last') /\ last'.n = Me /\ WasMember(last')) \/ last'.op = "Channel.Delete") =>
       LET c == last'.c IN
       /\ \A d \in (DOMAIN chanObj) \ {c} :
            /\ chanObj'[d].Nicks = chanObj[d].Nicks
            /\ \A n \in DOMAIN chanObj[d].Nicks :
                 /\ chanObj[d].Nicks[n] \in DOMAIN privObj'
                 /\ privObj'[chanObj[d].Nicks[n]] = privObj[chanObj[d].Nicks[n]]
       /\ \A n \in DOMAIN nickObj :
            \A d \in (DOMAIN nickObj[n].Channels) \ {c} :
              /\ d \in DOMAIN nickObj'[n].Channels
              /\ nickObj'[n].Channels[d] = nickObj[n].Channels[d]
       /\ \A d \in Range(chans) \ {c} : d \in Range(chans')
       /\ \A n \in Range(nicks) :
            DOMAIN nickObj'[n].Channels # {} => GetNick(Cur, nickObj[n].Nick)' = n]_vars

\* C20: n.Delete(), a leave of a nick n other than conn.Me, and n.ReNick to a
\* name no nick is indexed under remove no Nick other than n from the
\* nickname index.
C20_RemovalRespectsIdentity ==
  [][(\/ last'.op = "Nick.Delete"
      \/ Left(last') /\ last'.n # Me
      \/ last'.op = "ReNick" /\ last'.name \notin DOMAIN nicks) =>
       \A m \in Range(nicks) \ {last'.n} : m \in Range(nicks')]_vars

\* C13: after NewNick(k), whether or not k was indexed, GetNick(k) is the new
\* Nick with an empty Channels map and no mode flag set, and every existing
\* Nick and Channel is as it was.
C13_NewNickOverwrites ==
  [][last'.op = "NewNick" =>
       /\ last'.name \in DOMAIN nicks' /\ nicks'[last'.name] = last'.n
       /\ last'.n \notin DOMAIN nickObj
       /\ nickObj'[last'.n] = [Nick |-> last'.name, Modes |-> {}, Channels |-> EmptyMap]
       /\ \A m \in DOMAIN nickObj : nickObj'[m] = nickObj[m]
       /\ chanObj' = chanObj
       /\ privObj' = privObj]_vars

\* NewNick has just replaced, under its name, a Nick that has a mode flag
\* set and is on a channel.
C13_Witness ==
  /\ last.op = "NewNick" /\ last.indexed
  /\ GetNick(Cur, last.name) = last.n
  /\ \E m \in (DOMAIN nickObj) \ {last.n} :
       /\ nickObj[m].Nick = last.name
       /\ nickObj[m].Modes # {}
       /\ Memberships(Cur, m) # {}

\* C18: every call of Channel.DelNick, Nick.DelChannel, Channel.Delete or
\* Nick.Delete returns, and the calls it nests stay below the depth at which
\* the model cuts a call off.
C18_CascadeTerminates ==
  [][last'.op \in {"DelNick", "DelChannel", "Channel.Delete", "Nick.Delete"} =>
       /\ deep' >= 1
       /\ deep' < MaxDepth]_vars

\* conn.Me has left, through Channel.DelNick, a channel it shared with
\* another nick, and Channel.Delete was entered again through
\* Me.DelChannel while it went through the members.
C18_Witness ==
  /\ last.op = "DelNick" /\ last.n = Me
  /\ last.inNicks /\ last.inChannels
  /\ Cardinality(last.mem) = 2
  /\ deep >= 5

\* The order of the mode characters and the field each stands for, as the
\* tables are documented.
ChanModeOrder == <<"p", "s", "t", "n", "m", "i", "O", "z", "k", "l">>
NickModeOrder == <<"i", "o", "w", "x", "z">>
ChanPrivsOrder == <<"q", "a", "o", "h", "v">>
ModeOrder(kind) ==
  IF kind = "ChanMode" THEN ChanModeOrder
  ELSE IF kind = "NickMode" THEN NickModeOrder
  ELSE ChanPrivsOrder
SetLetters(m) ==
  LET rev == ReverseTable(m.kind)
      IsOn(ch) == ch \in DOMAIN rev /\ IsSet(m, rev[ch])
  IN SelectSeq(ModeOrder(m.kind), IsOn)
NothingSet(m) == m.flags = {} /\ m.Key = << >> /\ m.Limit = 0
InviteKeyLimit ==
  [kind |-> "ChanMode", flags |-> {"InviteOnly"},
   Key |-> <<"s", "e", "c", "r", "e", "t">>, Limit |-> 10]

\* C15: for a mode record with something set, String() is "+", the mode
\* characters of exactly the set fields in table order, then " " and the
\* key if there is one, then " " and the limit if there is one;
\* {InviteOnly, Key = "secret", Limit = 10} gives "+ikl secret 10".
C15_ModeEncoding ==
  (str # << >> /\ ~NothingSet(mode)) =>
    /\ str = <<"+">> \o SetLetters(mode)
               \o (IF mode.Key # << >> THEN <<" ">> \o mode.Key ELSE << >>)
               \o (IF mode.Limit # 0 THEN <<" ">> \o Decimal(mode.Limit) ELSE << >>)
    /\ mode = InviteKeyLimit =>
         str = <<"+", "i", "k", "l", " ", "s", "e", "c", "r", "e", "t", " ", "1", "0">>

\* String() has returned for {InviteOnly, Key = "secret", Limit = 10}.
C15_Witness ==
  /\ mode = InviteKeyLimit
  /\ str = <<"+", "i", "k", "l", " ", "s", "e", "c", "r", "e", "t", " ", "1", "0">>

\* C16: for each of the three record types String() is "No modes set"
\* exactly when no flag is true, the key is empty and the limit is zero, and
\* it is never "+" alone.
C16_NoModesSentinel ==
  str # << >> =>
    /\ (str = NoModesSet) <=> NothingSet(mode)
    /\ str # <<"+">>

\* String() has returned the sentinel for a zero ChanMode.
C16_Witness ==
  /\ mode.kind = "ChanMode" /\ NothingSet(mode)
  /\ str = NoModesSet

\* In each domain the reverse table is the inverse of the forward table.
IsInverse(fwd, rev) ==
  /\ DOMAIN rev = Range(fwd)
  /\ \A f \in DOMAIN fwd : rev[fwd[f]] = f
  /\ \A ch \in DOMAIN rev : fwd[rev[ch]] = ch
TablesInverse ==
  /\ IsInverse(ChanModeToString, StringToChanMode)
  /\ IsInverse(NickModeToString, StringToNickMode)
  /\ IsInverse(ChanPrivToString, StringToChanPriv)

\* C17 as stated: the reverse tables are the inverses of the forward tables,
\* and every set of boolean flags, encoded by String() and decoded letter by
\* letter through the reverse table, comes back as the same set.
C17_RoundTripAll ==
  /\ TablesInverse
  /\ (str # << >> /\ mode.Key = << >> /\ mode.Limit = 0) =>
       Decode(mode.kind, str) = mode.flags

\* C17: the reverse tables are the inverses of the forward tables, and
\* every set of boolean flags that is not empty, encoded by String() and
\* decoded letter by letter through the reverse table, comes back as the
\* same set.
C17_RoundTripNonEmpty ==
  /\ TablesInverse
  /\ (str # << >> /\ mode.Key = << >> /\ mode.Limit = 0 /\ mode.flags # {}) =>
       Decode(mode.kind, str) = mode.flags

\* A NickMode with every flag true has been encoded and decodes to itself.
C17_Witness ==
  /\ mode.kind = "NickMode" /\ mode.flags = Range(NickModeFields)
  /\ str # << >>
  /\ Decode(mode.kind, str) = mode.flags

\* The join passed the test of the side it was called on.
Passed(l) == (l.op = "AddNick" /\ ~l.inNicks) \/ (l.op = "AddChannel" /\ ~l.inChannels)

\* C21: every join that passes its test leaves both maps of the pair with
\* one ChanPrivs that no map referred to before, that has no flag set and
\* that no entry of another pair refers to, whatever flags an earlier
\* membership of the pair had.
C21_FreshPrivsOnJoin ==
  [][(Joined(last') /\ Passed(last')) =>
       LET n == last'.n
           c == last'.c
       IN /\ n \in DOMAIN chanObj'[c].Nicks
          /\ c \in DOMAIN nickObj'[n].Channels
          /\ nickObj'[n].Channels[c] = chanObj'[c].Nicks[n]
          /\ chanObj'[c].Nicks[n] \notin Referenced(Cur)
          /\ privObj'[chanObj'[c].Nicks[n]] = {}
          /\ \A c2 \in DOMAIN chanObj' : \A n2 \in DOMAIN chanObj'[c2].Nicks :
               chanObj'[c2].Nicks[n2] = chanObj'[c].Nicks[n] => (c2 = c /\ n2 = n)
          /\ \A n2 \in DOMAIN nickObj' : \A c2 \in DOMAIN nickObj'[n2].Channels :
               nickObj'[n2].Channels[c2] = chanObj'[c].Nicks[n] => (c2 = c /\ n2 = n)]_vars

\* A nick has joined again a channel whose Nicks still held, from its
\* earlier membership, a record with a flag set: the pair has a new record
\* with no flag.
C21_Witness ==
  /\ last.op = "AddChannel" /\ last.inNicks /\ ~last.inChannels
  /\ "Op" \in last.privs
  /\ last.n \in Members(Cur, last.c) /\ last.c \in Memberships(Cur, last.n)
  /\ chanObj[last.c].Nicks[last.n] = nickObj[last.n].Channels[last.c]
  /\ privObj[chanObj[last.c].Nicks[last.n]] = {}

\* ------------------------------------------------------------ type check
TypeOK ==
  /\ DOMAIN nicks \subseteq NickNames
  /\ DOMAIN chans \subseteq ChanNames
  /\ DOMAIN nickObj \subseteq NickIds
  /\ DOMAIN chanObj \subseteq ChanIds
  /\ DOMAIN privObj \subseteq PrivIds
  /\ pc \in {"idle", "assign", "index"}
  /\ warned \in 0..2
  /\ deep \in 0..MaxDepth
  /\ mode \in ModeRecords
  /\ str \in Seq(STRING)
====
